---- MODULE Spec2Model ----
(***************************************************************************)
(* Model of cling's Windows platform layer, lib/Utils/PlatformWin.cpp:     *)
(*   DLSym  - process-wide symbol lookup over the loaded-module list       *)
(*   Popen  - run a command and capture what it writes to a pipe           *)
(*   IsDLL  - map a file and classify its image header                     *)
(* Each function is a state machine of its own (SpecDLSym, SpecPopen,      *)
(* SpecIsDLL); the variables of the other ones stay at their initial value.*)
(***************************************************************************)
EXTENDS Integers, Sequences, FiniteSets, TLC

\* ------------------------------------------------------------------ bounds
\* Module lists have 1..MaxSmall modules, or a count near the inline capacity:
\* InitialCapacity-Edge+1 .. InitialCapacity+MaxExtra.
MaxSmall == 2
MaxExtra == 3
\* Modules that export the looked-up name sit in the first Edge or the last
\* Edge positions of the list, or within Edge positions of the capacity.
Edge == 2
\* At most MaxExporters modules of the initial list export the name.
MaxExporters == 2
\* Module loads/unloads by other threads between the two enumeration calls.
MaxChurn == 1
\* The child writes at most MaxOut bytes in all.
MaxOut == 3
\* The caller's buffer has a capacity of 0..MaxChunk bytes.
MaxChunk == 2
\* The caller's buffer holds at most MaxStale bytes of an earlier call.
MaxStale == 1

\* --------------------------------------------------------- program constants
\* llvm::SmallVector<HMODULE, 128> Modules;
InitialCapacity == 128
\* sizeof(HMODULE) under _WIN64
HandleSize == 8

VARIABLES
  \* ---- process state seen by DLSym
  loaded,      \* the process's module list, in load order (module handles)
  exporters,   \* the modules that export Name
  churn,       \* loads/unloads by other threads during the call
  \* ---- DLSym
  pcD,         \* position in DLSym
  Modules,     \* llvm::SmallVector<HMODULE,128> Modules (its size() elements)
  ModCap,      \* Modules.capacity()
  Bytes,       \* DWORD Bytes
  EnumLog,     \* one record per EnumProcessModulesEx call made
  Written,     \* entries of Modules the latest successful call stored
  Probed,      \* indices i whose Modules[i] went to GetProcAddress since then
  RetD,        \* value returned by DLSym (0 is nullptr)
  ErrD,        \* *Err
  \* ---- Popen: arguments and locals
  RdE,         \* bool RdE (capture standard error too)
  Buf,         \* llvm::SmallVectorImpl<char>& Buf (its size() bytes)
  BufIn,       \* what Buf held when Popen was called
  BufCap,      \* Buf.capacity_in_bytes() of the caller's buffer
  Chunk,       \* const size_t Chunk
  pcP,         \* position in Popen
  retP,        \* value returned by Popen
  failure,     \* the step of Popen that failed, "none" when none did
  \* ---- Popen: operating system
  LastError,   \* the thread's last-error code (::GetLastError())
  hAcq,        \* handles the call has been given by the OS
  hCloses,     \* number of times each handle has been passed to ::CloseHandle
  pipe,        \* bytes written to the pipe and not read yet
  diag,        \* what has been written to llvm::errs()
  reads,       \* ReadFile calls issued on the pipe
  readFailed,  \* a ReadFile ended with an error other than ERROR_BROKEN_PIPE
  \* ---- Popen: the child process
  childAlive,  \* the child has been created and has not exited
  childOpen,   \* the standard streams the child still has open
  wroteOut,    \* bytes the child wrote to its standard output
  wroteErr,    \* bytes the child wrote to its standard error
  sent,        \* bytes that entered the pipe, in order
  \* ---- IsDLL
  Image,       \* the file at Path: what the OS and the header hold
  pcI,         \* position in IsDLL
  hFile,       \* HANDLE hFile
  hFileMapping, \* HANDLE hFileMapping
  lpFileBase,  \* LPVOID lpFileBase
  iAcq,        \* resources the call has been given by the OS
  iRel,        \* number of releases issued for each resource
  diagI,       \* what IsDLL has written to llvm::errs()
  retI         \* value returned by IsDLL

dvars == <<loaded, exporters, churn, pcD, Modules, ModCap, Bytes, EnumLog, Written,
          Probed, RetD, ErrD>>

pvars == <<RdE, Buf, BufIn, BufCap, Chunk, pcP, retP, failure, LastError, hAcq, hCloses,
           pipe, diag, reads, readFailed, childAlive, childOpen, wroteOut,
           wroteErr, sent>>

ivars == <<Image, pcI, hFile, hFileMapping, lpFileBase, iAcq, iRel, diagI, retI>>

vars == <<dvars, pvars, ivars>>

\* ------------------------------------------------------------------ helpers
Min(a, b) == IF a < b THEN a ELSE b
Max(a, b) == IF a > b THEN a ELSE b
Range(s) == {s[i] : i \in 1..Len(s)}
Zeros(n) == [i \in 1..n |-> 0]

\* llvm::SmallVector::resize(N): shrink drops the tail, growth appends
\* value-initialised elements.
Resize(v, n) ==
  IF n <= Len(v) THEN SubSeq(v, 1, n) ELSE v \o Zeros(n - Len(v))

\* Capacity after resize(n) (SmallVector::grow_pod: twice the capacity plus one,
\* or the requested size when that is larger).
GrowCapacity(cap, n) ==
  IF n <= cap THEN cap ELSE Max(2 * cap + 1, n)

\* ::GetProcAddress(h, Name): the address Name has in module h; 0 when h does
\* not export it or is no handle of a loaded module.  A module's export has
\* the module's handle as its address here: distinct modules, distinct addresses.
GetProcAddress(h) ==
  IF h \in Range(loaded) /\ h \in exporters THEN h ELSE 0

\* ::EnumProcessModulesEx(process, &buf[0], cb, &Bytes, Flags) on success: the
\* handles that fit in cb bytes are stored, in load order; *Bytes is the size
\* needed for the whole list.
EnumStore(buf, cb) ==
  [i \in 1..Len(buf) |->
     IF i <= Min(Len(loaded), cb \div HandleSize) THEN loaded[i] ELSE buf[i]]
EnumBytes == Len(loaded) * HandleSize
\* The number of handles the call stores in a buffer of cb bytes.
EnumWritten(cb) == Min(Len(loaded), cb \div HandleSize)

\* for (auto It = Modules.rbegin(), End = Modules.rend(); It < End; ++It)
\*   if (Addr = GetProcAddress(*It, Name)) return Addr;
\* The loop walks the positions Len(buf) down to 1 and returns at the first
\* match, which is the match at the highest position; 0 when there is none.
SearchReverse(buf) ==
  LET visited == 1..Len(buf)
      hits    == {i \in visited : GetProcAddress(buf[i]) # 0}
  IN IF hits = {} THEN 0
     ELSE GetProcAddress(buf[CHOOSE i \in hits : \A j \in hits : j <= i])

\* The C++ indices i whose Modules[i] that loop passes to GetProcAddress: from
\* the last one down to the first match, all of them when nothing matches.
ProbedReverse(buf) ==
  LET hits == {i \in 1..Len(buf) : GetProcAddress(buf[i]) # 0}
  IN {i - 1 : i \in {j \in 1..Len(buf) : \A k \in hits : j >= k}}

\* for (DWORD i = NumNeeded-1; i > NumFirst; --i)
\*   if (Addr = GetProcAddress(Modules[i], Name)) return Addr;
\* i is the C++ (0-based) index, so Modules[i] is buf[i+1]; the loop walks i
\* from NumNeeded-1 down while i > NumFirst and returns at the first match.
SearchRetry(buf, NumNeeded, NumFirst) ==
  LET visited == {i \in 0..(NumNeeded - 1) : i > NumFirst}
      hits    == {i \in visited : GetProcAddress(buf[i + 1]) # 0}
  IN IF hits = {} THEN 0
     ELSE GetProcAddress(buf[(CHOOSE i \in hits : \A j \in hits : j <= i) + 1])

\* The indices i whose Modules[i] the loop of the second call passes to
\* GetProcAddress.
ProbedRetry(buf, NumNeeded, NumFirst) ==
  LET visited == {i \in 0..(NumNeeded - 1) : i > NumFirst}
      hits    == {i \in visited : GetProcAddress(buf[i + 1]) # 0}
  IN {i \in visited : \A k \in hits : i >= k}

\* A retry also when the first call filled the buffer exactly.
RetryNeeded_Eager(NumNeeded, NumFirst) == NumNeeded >= NumFirst

\* if (NumNeeded > NumFirst)  -- call EnumProcessModulesEx again
RetryNeeded(NumNeeded, NumFirst) == NumNeeded > NumFirst

\* ------------------------------------------------------------ handles of Popen
HandleNames ==
  {"hOutputReadTmp", "hOutputWrite", "hErrorWrite", "hOutputRead", "hProcess", "hThread"}

\* No call of Popen is in progress.
PopenIdle ==
  /\ RdE = FALSE
  /\ Buf = << >>
  /\ BufIn = << >>
  /\ BufCap = 0
  /\ Chunk = 0
  /\ pcP = "idle"
  /\ retP = FALSE
  /\ failure = "none"
  /\ LastError = "SUCCESS"
  /\ hAcq = {}
  /\ hCloses = [h \in HandleNames |-> 0]
  /\ pipe = << >>
  /\ diag = << >>
  /\ reads = 0
  /\ readFailed = FALSE
  /\ childAlive = FALSE
  /\ childOpen = {}
  /\ wroteOut = << >>
  /\ wroteErr = << >>
  /\ sent = << >>

\* ------------------------------------------------------------- IsDLL: state
Resources == {"file", "mapping", "view"}

\* No call of IsDLL is in progress.
IsDLLIdle ==
  /\ Image = [exists |-> FALSE, empty |-> FALSE, magic |-> FALSE, lfanew |-> FALSE,
              signature |-> FALSE, dll |-> FALSE]
  /\ pcI = "idle"
  /\ hFile = "unset"
  /\ hFileMapping = "unset"
  /\ lpFileBase = "unset"
  /\ iAcq = {}
  /\ iRel = [r \in Resources |-> 0]
  /\ diagI = << >>
  /\ retI = FALSE

\* ------------------------------------------------------------ DLSym: inputs
ModuleCounts ==
  (1..MaxSmall) \cup ((InitialCapacity - Edge + 1)..(InitialCapacity + MaxExtra))

EdgePositions(n) ==
  {p \in 1..n : \/ p <= Edge
                \/ p > n - Edge
                \/ (p > InitialCapacity - Edge /\ p <= InitialCapacity + Edge)}

InitDLSym ==
  /\ \E n \in ModuleCounts :
       /\ loaded = [i \in 1..n |-> i]
       /\ exporters \in {E \in SUBSET EdgePositions(n) : Cardinality(E) <= MaxExporters}
  /\ churn = 0
  /\ pcD = "start"
  /\ Modules = << >>
  /\ ModCap = InitialCapacity
  /\ Bytes = 0
  /\ EnumLog = << >>
  /\ Written = 0
  /\ Probed = {}
  /\ RetD = 0
  /\ ErrD = ""
  /\ PopenIdle
  /\ IsDLLIdle

\* ----------------------------------------------------------- DLSym: actions
\* Lines 526-529, the call succeeds.
DLSymEnumFirst ==
  /\ pcD = "start"
  /\ LET buf == Resize(Modules, ModCap) IN
       /\ Modules' = EnumStore(buf, ModCap * HandleSize)
       /\ Bytes' = EnumBytes
       /\ Written' = EnumWritten(ModCap * HandleSize)
       /\ EnumLog' = Append(EnumLog, [size |-> Len(buf), cb |-> ModCap * HandleSize,
                                      ok |-> TRUE, reported |-> Len(loaded)])
  /\ pcD' = "search"
  /\ UNCHANGED <<loaded, exporters, churn, ModCap, Probed, RetD, ErrD, pvars, ivars>>

\* Lines 526-529 and 553-556, the call fails.
DLSymEnumFirstFails ==
  /\ pcD = "start"
  /\ LET buf == Resize(Modules, ModCap) IN
       /\ Modules' = buf
       /\ EnumLog' = Append(EnumLog, [size |-> Len(buf), cb |-> ModCap * HandleSize,
                                      ok |-> FALSE, reported |-> 0])
  /\ ErrD' = "EnumProcessModulesEx"
  /\ RetD' = 0
  /\ pcD' = "done"
  /\ UNCHANGED <<loaded, exporters, churn, ModCap, Bytes, Written, Probed, pvars, ivars>>

\* Lines 531-541: trim, search in reverse, decide on the retry.
DLSymSearchFirst ==
  /\ pcD = "search"
  /\ LET NumNeeded == Bytes \div HandleSize
         NumFirst  == Len(Modules)
         trimmed   == IF NumNeeded < NumFirst THEN Resize(Modules, NumNeeded) ELSE Modules
         Addr      == SearchReverse(trimmed)
     IN /\ Modules' = trimmed
        /\ Probed' = ProbedReverse(trimmed)
        /\ IF Addr # 0
             THEN RetD' = Addr /\ pcD' = "done"
             ELSE IF RetryNeeded(NumNeeded, NumFirst)
                    THEN RetD' = RetD /\ pcD' = "retry"
                    ELSE RetD' = 0 /\ pcD' = "done"
  /\ UNCHANGED <<loaded, exporters, churn, ModCap, Bytes, EnumLog, Written, ErrD, pvars, ivars>>

\* Another thread loads a module while DLSym is between its two calls.
ModuleLoad ==
  /\ pcD = "retry"
  /\ churn < MaxChurn
  /\ LET h == InitialCapacity + MaxExtra + churn + 1 IN
       /\ loaded' = Append(loaded, h)
       /\ \E exports \in BOOLEAN :
            exporters' = IF exports THEN exporters \cup {h} ELSE exporters
  /\ churn' = churn + 1
  /\ UNCHANGED <<pcD, Modules, ModCap, Bytes, EnumLog, Written, Probed, RetD, ErrD, pvars, ivars>>

\* Another thread unloads a module while DLSym is between its two calls.
ModuleUnload ==
  /\ pcD = "retry"
  /\ churn < MaxChurn
  /\ \E p \in EdgePositions(Len(loaded)) :
       loaded' = SubSeq(loaded, 1, p - 1) \o SubSeq(loaded, p + 1, Len(loaded))
  /\ churn' = churn + 1
  /\ UNCHANGED <<exporters, pcD, Modules, ModCap, Bytes, EnumLog, Written, Probed, RetD,
                 ErrD, pvars, ivars>>

\* Lines 543-549 and 556, the second call succeeds.
DLSymEnumSecond ==
  /\ pcD = "retry"
  /\ LET NumNeeded == Bytes \div HandleSize
         NumFirst  == Len(Modules)
         cap       == GrowCapacity(ModCap, NumNeeded)
         buf       == Resize(Modules, NumNeeded)
         got       == EnumStore(buf, cap * HandleSize)
     IN /\ ModCap' = cap
        /\ Modules' = got
        /\ Bytes' = EnumBytes
        /\ EnumLog' = Append(EnumLog, [size |-> Len(buf), cb |-> cap * HandleSize,
                                       ok |-> TRUE, reported |-> Len(loaded)])
        /\ Written' = EnumWritten(cap * HandleSize)
        /\ Probed' = ProbedRetry(got, NumNeeded, NumFirst)
        /\ RetD' = SearchRetry(got, NumNeeded, NumFirst)
  /\ pcD' = "done"
  /\ UNCHANGED <<loaded, exporters, churn, ErrD, pvars, ivars>>

\* Lines 543-545, 550-551 and 556, the second call fails.
DLSymEnumSecondFails ==
  /\ pcD = "retry"
  /\ LET NumNeeded == Bytes \div HandleSize
         cap       == GrowCapacity(ModCap, NumNeeded)
         buf       == Resize(Modules, NumNeeded)
     IN /\ ModCap' = cap
        /\ Modules' = buf
        /\ EnumLog' = Append(EnumLog, [size |-> Len(buf), cb |-> cap * HandleSize,
                                       ok |-> FALSE, reported |-> 0])
  /\ ErrD' = "EnumProcessModulesEx"
  /\ RetD' = 0
  /\ pcD' = "done"
  /\ UNCHANGED <<loaded, exporters, churn, Bytes, Written, Probed, pvars, ivars>>

NextDLSym ==
  \/ DLSymEnumFirst
  \/ DLSymEnumFirstFails
  \/ DLSymSearchFirst
  \/ ModuleLoad
  \/ ModuleUnload
  \/ DLSymEnumSecond
  \/ DLSymEnumSecondFails

SpecDLSym == InitDLSym /\ [][NextDLSym]_vars

\* ------------------------------------------------------------ Popen: helpers
cvars == <<childAlive, childOpen, wroteOut, wroteErr, sent>>

\* static void ReportError(DWORD Err, const char* Prefix): always writes a line.
ReportError(d, err, prefix) == Append(d, prefix)

\* bool ReportLastError(const char* Prefix): writes only when GetLastError() # 0.
ReportLastError(d, err, prefix) ==
  IF err # "SUCCESS" THEN ReportError(d, err, prefix) ELSE d

\* ::CloseHandle on every handle of hs.
CloseHandles(cl, hs) == [h \in HandleNames |-> IF h \in hs THEN cl[h] + 1 ELSE cl[h]]

IsOpen(h) == h \in hAcq /\ hCloses[h] = 0

\* si.hStdOutput = hOutputWrite; if (RdE) si.hStdError = hErrorWrite;
\* the child's stream s is a write end of the pipe.
Connected(s, rde) == s = "stdout" \/ (s = "stderr" /\ rde)

\* The standard-error duplicate is left open in the parent.
ParentWriteEnds_KeepError(rde) == {"hOutputWrite"}

\* CloseHandle(hOutputWrite); if (RdE) CloseHandle(hErrorWrite);
ParentWriteEnds(rde) ==
  {"hOutputWrite"} \cup (IF rde THEN {"hErrorWrite"} ELSE {})

\* The cleanup forgets the standard-error duplicate.
DupReadCleanup_LeakError(rde) == {"hOutputReadTmp", "hOutputWrite"}

\* Cleanup when the duplication of the read end fails.
DupReadCleanup(rde) ==
  {"hOutputReadTmp", "hOutputWrite"} \cup (IF rde THEN {"hErrorWrite"} ELSE {})

\* Every open handle to the write end of the pipe, in the parent and the child.
Writers ==
  {h \in {"hOutputWrite", "hErrorWrite"} : IsOpen(h)}
    \cup {s \in childOpen : Connected(s, RdE)}

\* The buffer is not cleared on entry.
ClearBuf_Keep(buf) == buf

\* Buf.resize(0) on entry.
ClearBuf(buf) == Resize(buf, 0)

\* ReadFile(hOutputRead, &Buf[Len], Chunk, &dwRead, NULL) storing data at Len.
ReadInto(buf, len, data) ==
  [i \in 1..Len(buf) |->
     IF i > len /\ i <= len + Len(data) THEN data[i - len] ELSE buf[i]]

\* One pass of the loop whose read succeeded with Len(data) > 0 bytes:
\* grow by Chunk, read, trim when the read was short.
AfterRead(buf, chunk, data) ==
  LET len    == Len(buf)
      filled == ReadInto(Resize(buf, len + chunk), len, data)
      dwRead == Len(data)
  IN IF dwRead < chunk THEN Resize(filled, len + dwRead) ELSE filled

\* The pass of the loop that ends it: grow by Chunk, then Buf.resize(Len).
AfterLastRead(buf, chunk) ==
  LET len == Len(buf) IN Resize(Resize(buf, len + chunk), len)

\* Err = ::GetLastError(); if (Err != ERROR_BROKEN_PIPE) ReportError(Err, "ReadFile");
ReadDiag(d, err) ==
  IF err # "BROKEN_PIPE" THEN ReportError(d, err, "ReadFile") ELSE d

\* return !Buf.empty();
NotEmpty(buf) == buf # << >>

\* ------------------------------------------------------------- Popen: inputs
InitPopen ==
  /\ RdE \in BOOLEAN
  /\ BufCap \in 0..MaxChunk
  \* bytes of an earlier call (255 each), within the capacity
  /\ \E k \in 0..Min(BufCap, MaxStale) : Buf = [i \in 1..k |-> 255]
  /\ BufIn = Buf
  /\ Chunk = 0
  /\ pcP = "start"
  /\ retP = FALSE
  /\ failure = "none"
  /\ LastError \in {"SUCCESS", "BROKEN_PIPE", "OTHER"}
  /\ hAcq = {}
  /\ hCloses = [h \in HandleNames |-> 0]
  /\ pipe = << >>
  /\ diag = << >>
  /\ reads = 0
  /\ readFailed = FALSE
  /\ childAlive = FALSE
  /\ childOpen = {}
  /\ wroteOut = << >>
  /\ wroteErr = << >>
  /\ sent = << >>
  \* no call of DLSym is in progress
  /\ loaded = << >>
  /\ exporters = {}
  /\ churn = 0
  /\ pcD = "idle"
  /\ Modules = << >>
  /\ ModCap = InitialCapacity
  /\ Bytes = 0
  /\ EnumLog = << >>
  /\ Written = 0
  /\ Probed = {}
  /\ RetD = 0
  /\ ErrD = ""
  /\ IsDLLIdle

\* ------------------------------------------------------------ Popen: actions
\* Lines 595-606, ::CreatePipe succeeds.
PopenCreatePipe ==
  /\ pcP = "start"
  /\ Buf' = ClearBuf(Buf)
  /\ hAcq' = hAcq \cup {"hOutputReadTmp", "hOutputWrite"}
  /\ pcP' = IF RdE THEN "dupE" ELSE "dupR"
  /\ UNCHANGED <<RdE, BufIn, BufCap, Chunk, retP, failure, LastError, hCloses, pipe, diag,
                 reads, readFailed, cvars, dvars, ivars>>

\* Lines 595-606, ::CreatePipe fails: return false.
PopenCreatePipeFails ==
  /\ pcP = "start"
  /\ Buf' = ClearBuf(Buf)
  /\ LastError' = "OTHER"
  /\ failure' = "pipe"
  /\ retP' = FALSE
  /\ pcP' = "done"
  /\ UNCHANGED <<RdE, BufIn, BufCap, Chunk, hAcq, hCloses, pipe, diag, reads, readFailed,
                 cvars, dvars, ivars>>

\* Lines 607-615, ::DuplicateHandle of the write end succeeds.
PopenDupError ==
  /\ pcP = "dupE"
  /\ hAcq' = hAcq \cup {"hErrorWrite"}
  /\ pcP' = "dupR"
  /\ UNCHANGED <<RdE, BufIn, Buf, BufCap, Chunk, retP, failure, LastError, hCloses, pipe,
                 diag, reads, readFailed, cvars, dvars, ivars>>

\* Lines 607-615, ::DuplicateHandle of the write end fails.
PopenDupErrorFails ==
  /\ pcP = "dupE"
  /\ LastError' = "OTHER"
  /\ diag' = ReportLastError(diag, LastError', "DuplicateHandle")
  /\ hCloses' = CloseHandles(hCloses, {"hOutputReadTmp", "hOutputWrite"})
  /\ failure' = "dupE"
  /\ retP' = FALSE
  /\ pcP' = "done"
  /\ UNCHANGED <<RdE, BufIn, Buf, BufCap, Chunk, hAcq, pipe, reads, readFailed, cvars, dvars, ivars>>

\* Lines 620-631, ::DuplicateHandle of the read end succeeds; the inheritable
\* read end is closed.
PopenDupRead ==
  /\ pcP = "dupR"
  /\ hAcq' = hAcq \cup {"hOutputRead"}
  /\ hCloses' = CloseHandles(hCloses, {"hOutputReadTmp"})
  /\ pcP' = "spawn"
  /\ UNCHANGED <<RdE, BufIn, Buf, BufCap, Chunk, retP, failure, LastError, pipe, diag,
                 reads, readFailed, cvars, dvars, ivars>>

\* Lines 620-628, ::DuplicateHandle of the read end fails.
PopenDupReadFails ==
  /\ pcP = "dupR"
  /\ LastError' = "OTHER"
  /\ diag' = ReportLastError(diag, LastError', "DuplicateHandle")
  /\ hCloses' = CloseHandles(hCloses, DupReadCleanup(RdE))
  /\ failure' = "dupR"
  /\ retP' = FALSE
  /\ pcP' = "done"
  /\ UNCHANGED <<RdE, BufIn, Buf, BufCap, Chunk, hAcq, pipe, reads, readFailed, cvars, dvars, ivars>>

\* Lines 633-660, ::CreateProcessA succeeds: the child runs with the write
\* ends as its standard streams, the parent closes its own write ends.
PopenSpawn ==
  /\ pcP = "spawn"
  /\ hAcq' = hAcq \cup {"hProcess", "hThread"}
  /\ childAlive' = TRUE
  /\ childOpen' = {"stdout", "stderr"}
  /\ hCloses' = CloseHandles(hCloses, ParentWriteEnds(RdE))
  /\ Chunk' = BufCap
  /\ pcP' = "read"
  /\ UNCHANGED <<RdE, BufIn, Buf, BufCap, retP, failure, LastError, pipe, diag, reads,
                 readFailed, wroteOut, wroteErr, sent, dvars, ivars>>

\* Lines 633-656 and 679-684, ::CreateProcessA fails.
PopenSpawnFails ==
  /\ pcP = "spawn"
  /\ LastError' = "OTHER"
  /\ hCloses' = CloseHandles(CloseHandles(hCloses, ParentWriteEnds(RdE)), {"hOutputRead"})
  /\ diag' = ReportError(diag, LastError', "CreateProcess")
  /\ failure' = "spawn"
  /\ retP' = NotEmpty(Buf)
  /\ pcP' = "done"
  /\ UNCHANGED <<RdE, BufIn, Buf, BufCap, Chunk, hAcq, pipe, reads, readFailed, cvars, dvars, ivars>>

\* The child writes one byte to one of its open standard streams; the byte
\* enters the pipe when that stream is a write end of the pipe.
ChildWrite ==
  /\ childAlive
  /\ pcP # "done"
  /\ Len(wroteOut) + Len(wroteErr) < MaxOut
  /\ \E s \in childOpen :
       LET b == Len(wroteOut) + Len(wroteErr) + 1 IN
         /\ wroteOut' = IF s = "stdout" THEN Append(wroteOut, b) ELSE wroteOut
         /\ wroteErr' = IF s = "stderr" THEN Append(wroteErr, b) ELSE wroteErr
         /\ pipe' = IF Connected(s, RdE) THEN Append(pipe, b) ELSE pipe
         /\ sent' = IF Connected(s, RdE) THEN Append(sent, b) ELSE sent
  /\ UNCHANGED <<RdE, BufIn, Buf, BufCap, Chunk, pcP, retP, failure, LastError, hAcq,
                 hCloses, diag, reads, readFailed, childAlive, childOpen, dvars, ivars>>

\* The child closes one of its standard streams.
ChildClose ==
  /\ childAlive
  /\ pcP # "done"
  /\ \E s \in childOpen : childOpen' = childOpen \ {s}
  /\ UNCHANGED <<RdE, BufIn, Buf, BufCap, Chunk, pcP, retP, failure, LastError, hAcq,
                 hCloses, pipe, diag, reads, readFailed, childAlive, wroteOut,
                 wroteErr, sent, dvars, ivars>>

\* The child exits: the OS closes every handle it held.
ChildExit ==
  /\ childAlive
  /\ pcP # "done"
  /\ childAlive' = FALSE
  /\ childOpen' = {}
  /\ UNCHANGED <<RdE, BufIn, Buf, BufCap, Chunk, pcP, retP, failure, LastError, hAcq,
                 hCloses, pipe, diag, reads, readFailed, wroteOut, wroteErr, sent,
                 dvars, ivars>>

\* Lines 661-673, ReadFile returns TRUE with dwRead > 0: any non-empty prefix
\* of the pending bytes that fits in Chunk.
PopenReadData ==
  /\ pcP = "read"
  /\ \E n \in 1..Min(Len(pipe), Chunk) :
       /\ Buf' = AfterRead(Buf, Chunk, SubSeq(pipe, 1, n))
       /\ pipe' = SubSeq(pipe, n + 1, Len(pipe))
  /\ reads' = reads + 1
  /\ UNCHANGED <<RdE, BufIn, BufCap, Chunk, pcP, retP, failure, LastError, hAcq, hCloses,
                 diag, readFailed, cvars, dvars, ivars>>

\* Lines 661-670, ReadFile returns TRUE with dwRead = 0: a read of zero bytes
\* completes once data is pending.  GetLastError() is whatever an earlier call left.
PopenReadZero ==
  /\ pcP = "read"
  /\ Chunk = 0
  /\ Len(pipe) > 0
  /\ Buf' = AfterLastRead(Buf, Chunk)
  /\ diag' = ReadDiag(diag, LastError)
  /\ reads' = reads + 1
  /\ pcP' = "close"
  /\ UNCHANGED <<RdE, BufIn, BufCap, Chunk, retP, failure, LastError, hAcq, hCloses, pipe,
                 readFailed, cvars, dvars, ivars>>

\* Lines 661-670, ReadFile returns FALSE with ERROR_BROKEN_PIPE: nothing is
\* pending and no handle to the write end is open.
PopenReadBrokenPipe ==
  /\ pcP = "read"
  /\ Len(pipe) = 0
  /\ Writers = {}
  /\ LastError' = "BROKEN_PIPE"
  /\ Buf' = AfterLastRead(Buf, Chunk)
  /\ diag' = ReadDiag(diag, LastError')
  /\ reads' = reads + 1
  /\ pcP' = "close"
  /\ UNCHANGED <<RdE, BufIn, BufCap, Chunk, retP, failure, hAcq, hCloses, pipe, readFailed,
                 cvars, dvars, ivars>>

\* Lines 661-670, ReadFile returns FALSE with another error.
PopenReadFails ==
  /\ pcP = "read"
  /\ LastError' = "OTHER"
  /\ Buf' = AfterLastRead(Buf, Chunk)
  /\ diag' = ReadDiag(diag, LastError')
  /\ reads' = reads + 1
  /\ readFailed' = TRUE
  /\ pcP' = "close"
  /\ UNCHANGED <<RdE, BufIn, BufCap, Chunk, retP, failure, hAcq, hCloses, pipe, cvars, dvars, ivars>>

\* Lines 676-684 after the loop: close the process, thread and read handles.
PopenReturn ==
  /\ pcP = "close"
  /\ hCloses' = CloseHandles(hCloses, {"hProcess", "hThread", "hOutputRead"})
  /\ retP' = NotEmpty(Buf)
  /\ pcP' = "done"
  /\ UNCHANGED <<RdE, BufIn, Buf, BufCap, Chunk, failure, LastError, hAcq, pipe, diag,
                 reads, readFailed, cvars, dvars, ivars>>

PopenStep ==
  \/ PopenCreatePipe
  \/ PopenDupError
  \/ PopenDupRead
  \/ PopenSpawn
  \/ PopenReadData
  \/ PopenReadZero
  \/ PopenReadBrokenPipe
  \/ PopenReturn

NextPopen ==
  \/ PopenCreatePipe
  \/ PopenCreatePipeFails
  \/ PopenDupError
  \/ PopenDupErrorFails
  \/ PopenDupRead
  \/ PopenDupReadFails
  \/ PopenSpawn
  \/ PopenSpawnFails
  \/ ChildWrite
  \/ ChildClose
  \/ ChildExit
  \/ PopenReadData
  \/ PopenReadZero
  \/ PopenReadBrokenPipe
  \/ PopenReadFails
  \/ PopenReturn

SpecPopen == InitPopen /\ [][NextPopen]_vars

\* The calling thread runs, and the OS completes a read that can complete;
\* nothing obliges an OS call to fail or the child to write or to exit.
SpecPopenFair == SpecPopen /\ WF_vars(PopenStep)

\* ------------------------------------------------------------ IsDLL: helpers
\* ::CloseHandle(hFile), ::CloseHandle(hFileMapping), ::UnmapViewOfFile(lpFileBase).
Release(rel, rs) == [r \in Resources |-> IF r \in rs THEN rel[r] + 1 ELSE rel[r]]

\* if (hFileMapping == INVALID_HANDLE_VALUE)
MappingFailed(h) == h = "INVALID_HANDLE_VALUE"

\* if (!lpFileBase)
ViewFailed(base) == base = "NULL"

\* e_magic == IMAGE_DOS_SIGNATURE, and then Signature == IMAGE_NT_SIGNATURE
\* and Characteristics & IMAGE_FILE_DLL.
Classify(magic, signature, dll) == magic /\ signature /\ dll

\* Cleanup when MapViewOfFile fails.
ViewFailedCleanup == {"mapping", "file"}

\* Cleanup on the normal path.
FinalCleanup == {"view", "mapping", "file"}

\* ------------------------------------------------------------- IsDLL: inputs
InitIsDLL ==
  /\ Image \in [exists : BOOLEAN, empty : BOOLEAN, magic : BOOLEAN, lfanew : BOOLEAN,
                signature : BOOLEAN, dll : BOOLEAN]
  \* a file without bytes has no header
  /\ Image.empty => (~Image.magic /\ ~Image.lfanew /\ ~Image.signature /\ ~Image.dll)
  /\ pcI = "start"
  /\ hFile = "unset"
  /\ hFileMapping = "unset"
  /\ lpFileBase = "unset"
  /\ iAcq = {}
  /\ iRel = [r \in Resources |-> 0]
  /\ diagI = << >>
  /\ retI = FALSE
  \* no call of DLSym or Popen is in progress
  /\ loaded = << >>
  /\ exporters = {}
  /\ churn = 0
  /\ pcD = "idle"
  /\ Modules = << >>
  /\ ModCap = InitialCapacity
  /\ Bytes = 0
  /\ EnumLog = << >>
  /\ Written = 0
  /\ Probed = {}
  /\ RetD = 0
  /\ ErrD = ""
  /\ PopenIdle

\* ------------------------------------------------------------ IsDLL: actions
\* Lines 440-446, ::CreateFileA succeeds.
IsDLLOpen ==
  /\ pcI = "start"
  /\ Image.exists
  /\ hFile' = "valid"
  /\ iAcq' = iAcq \cup {"file"}
  /\ pcI' = "mapping"
  /\ UNCHANGED <<Image, hFileMapping, lpFileBase, iRel, diagI, retI, dvars, pvars>>

\* Lines 440-446, ::CreateFileA fails (no such file, no access).
IsDLLOpenFails ==
  /\ pcI = "start"
  /\ hFile' = "INVALID_HANDLE_VALUE"
  /\ diagI' = ReportLastError(diagI, "OTHER", "CreateFile")
  /\ retI' = FALSE
  /\ pcI' = "done"
  /\ UNCHANGED <<Image, hFileMapping, lpFileBase, iAcq, iRel, dvars, pvars>>

\* Lines 447-453, ::CreateFileMapping: a mapping handle, or NULL when it fails
\* (it always fails on a file of length zero).
IsDLLCreateMapping ==
  /\ pcI = "mapping"
  /\ \E h \in (IF Image.empty THEN {"NULL"} ELSE {"NULL", "valid"}) :
       /\ hFileMapping' = h
       /\ IF MappingFailed(h)
            THEN /\ diagI' = ReportLastError(diagI, "OTHER", "CreateFileMapping")
                 /\ iRel' = Release(iRel, {"file"})
                 /\ iAcq' = iAcq
                 /\ retI' = FALSE
                 /\ pcI' = "done"
            ELSE /\ iAcq' = IF h = "valid" THEN iAcq \cup {"mapping"} ELSE iAcq
                 /\ pcI' = "view"
                 /\ UNCHANGED <<iRel, diagI, retI>>
  /\ UNCHANGED <<Image, hFile, lpFileBase, dvars, pvars>>

\* Line 455, ::MapViewOfFile succeeds on a mapping handle.
IsDLLMapView ==
  /\ pcI = "view"
  /\ hFileMapping = "valid"
  /\ lpFileBase' = "valid"
  /\ iAcq' = iAcq \cup {"view"}
  /\ pcI' = "inspect"
  /\ UNCHANGED <<Image, hFile, hFileMapping, iRel, diagI, retI, dvars, pvars>>

\* Lines 455-461, ::MapViewOfFile returns NULL (it always does on a handle
\* that is no mapping).
IsDLLMapViewFails ==
  /\ pcI = "view"
  /\ lpFileBase' = "NULL"
  /\ ViewFailed(lpFileBase')
  /\ diagI' = ReportLastError(diagI, "OTHER", "CreateFileMapping")
  /\ iRel' = Release(iRel, ViewFailedCleanup)
  /\ retI' = FALSE
  /\ pcI' = "done"
  /\ UNCHANGED <<Image, hFile, hFileMapping, iAcq, dvars, pvars>>

\* Lines 463-475: inspect the headers, release everything, return.  With
\* e_lfanew outside the view the NT header read is whatever lies there.
IsDLLInspect ==
  /\ pcI = "inspect"
  /\ \E signature, dll \in BOOLEAN :
       /\ (~Image.magic \/ Image.lfanew) => (signature = Image.signature /\ dll = Image.dll)
       /\ retI' = Classify(Image.magic, signature, dll)
  /\ iRel' = Release(iRel, FinalCleanup)
  /\ pcI' = "done"
  /\ UNCHANGED <<Image, hFile, hFileMapping, lpFileBase, iAcq, diagI, dvars, pvars>>

\* Lines 465-468 with e_lfanew outside the view: the read of the NT header
\* faults and IsDLL does not return.
IsDLLFault ==
  /\ pcI = "inspect"
  /\ Image.magic
  /\ ~Image.lfanew
  /\ pcI' = "fault"
  /\ UNCHANGED <<Image, hFile, hFileMapping, lpFileBase, iAcq, iRel, diagI, retI,
                 dvars, pvars>>

NextIsDLL ==
  \/ IsDLLOpen
  \/ IsDLLOpenFails
  \/ IsDLLCreateMapping
  \/ IsDLLMapView
  \/ IsDLLMapViewFails
  \/ IsDLLInspect
  \/ IsDLLFault

SpecIsDLL == InitIsDLL /\ [][NextIsDLL]_vars

\* ================================================================== claims
\* ------------------------------------------------------------------- DLSym
\* Positions of the module list whose module exports Name.
ExportingPositions == {i \in 1..Len(loaded) : loaded[i] \in exporters}

\* The address Name has in the latest-loaded module that exports it.
LatestExport ==
  loaded[CHOOSE i \in ExportingPositions : \A j \in ExportingPositions : j <= i]

\* DLSym has returned, every enumeration call it made succeeded and no other
\* thread changed the module list meanwhile.
QuietReturn ==
  /\ pcD = "done"
  /\ churn = 0
  /\ \A k \in 1..Len(EnumLog) : EnumLog[k].ok

\* C1: last-loaded wins - whatever the length of the module list, an address
\* DLSym returns is the one exported by the latest-loaded module that exports
\* the name, never the address of an earlier-loaded one.
C1_LastLoadedWins ==
  (QuietReturn /\ RetD # 0) => RetD = LatestExport

\* C5: DLSym returns nullptr if and only if no module of the list exports the
\* name (enumeration calls succeed, the list does not change during the call).
C5_NotFoundIffNoExport ==
  QuietReturn => (RetD = 0 <=> ExportingPositions = {})

\* C7: EnumProcessModulesEx is called at most twice in one call of DLSym; the
\* second call is made only after a first call that succeeded and reported
\* more modules than the buffer held, with the buffer resized to the count
\* the first call reported; nothing the second call reports leads to a third.
C7_BoundedRetry ==
  /\ Len(EnumLog) <= 2
  /\ Len(EnumLog) = 2 =>
       /\ EnumLog[1].ok
       /\ EnumLog[1].reported > EnumLog[1].size
       /\ EnumLog[2].size = EnumLog[1].reported
  /\ pcD = "retry" => Len(EnumLog) = 1

\* C7 witness: DLSym returned after a second call that itself reported more
\* modules than its buffer held.
C7_Witness ==
  /\ pcD = "done"
  /\ Len(EnumLog) = 2
  /\ EnumLog[2].ok
  /\ EnumLog[2].reported > EnumLog[2].size

\* ------------------------------------------------------------------- Popen
\* Popen has returned after a successful spawn and no ReadFile ended with an
\* error other than ERROR_BROKEN_PIPE.
CleanReturn ==
  /\ pcP = "done"
  /\ failure = "none"
  /\ ~readFailed

\* Write ends of the pipe that the child still holds.
ChildWriteEnds == {s \in childOpen : Connected(s, RdE)}

\* C2: output fidelity - after a successful spawn, for every child output,
\* every split into partial reads and every chunk size (0 included), the
\* buffer returned holds exactly the bytes the child put into the pipe, in
\* order, with no truncation, duplication or padding.
C2_OutputFidelity ==
  CleanReturn => Buf = sent

\* C3: handle release - at no time is a handle closed twice or closed without
\* having been acquired, and when Popen returns, on whatever path, every
\* handle it acquired has been closed exactly once.
C3_HandlesReleased ==
  /\ \A h \in HandleNames : hCloses[h] <= 1 /\ (hCloses[h] > 0 => h \in hAcq)
  /\ pcP = "done" => \A h \in HandleNames : hCloses[h] = (IF h \in hAcq THEN 1 ELSE 0)

\* C3 witness: a return through the read-error path with capture of standard
\* error, all six handles acquired.
C3_Witness ==
  /\ pcP = "done"
  /\ RdE
  /\ readFailed
  /\ hAcq = HandleNames

\* C4: ordering - whenever a read is about to be issued or has been issued,
\* the parent has closed hOutputWrite, and hErrorWrite when RdE, so the only
\* open write ends are the child's.
C4_WriteEndsClosedBeforeRead ==
  (pcP = "read" \/ reads > 0) =>
     /\ hCloses["hOutputWrite"] = 1
     /\ RdE => hCloses["hErrorWrite"] = 1
     /\ Writers = ChildWriteEnds

\* C4 witness: a read was issued in a call that captures standard error, with
\* the child still holding a write end.
C4_Witness ==
  /\ reads > 0
  /\ RdE
  /\ ChildWriteEnds # {}

\* C6: result flag - on every return path Popen returns true exactly when the
\* buffer is non-empty; a failed pipe, duplication or spawn, and a child that
\* put no byte into the pipe, give an empty buffer and false, whatever the
\* buffer held on entry.
C6_ResultFlag ==
  pcP = "done" =>
     /\ retP <=> Buf # << >>
     /\ failure # "none" => (Buf = << >> /\ ~retP)
     /\ (failure = "none" /\ sent = << >>) => (Buf = << >> /\ ~retP)

\* C6 witness: ::CreatePipe failed in a call whose buffer held earlier data.
C6_Witness ==
  /\ pcP = "done"
  /\ failure = "pipe"
  /\ BufIn # << >>

\* C8: failure reporting - each failure (pipe, duplication for standard error,
\* duplication of the read end, spawn) writes a diagnostic to the error sink
\* and returns an empty buffer and false without any read on the pipe.
C8_FailuresReported ==
  (pcP = "done" /\ failure # "none") =>
     /\ diag # << >>
     /\ Buf = << >>
     /\ ~retP
     /\ reads = 0

\* C9: stderr capture - for a child that wrote only to standard error: without
\* RdE the result is (empty, false); with RdE it is exactly the bytes the
\* child wrote, and true.
C9_StderrCapture ==
  (CleanReturn /\ wroteOut = << >> /\ wroteErr # << >>) =>
     IF RdE THEN Buf = wroteErr /\ retP
            ELSE Buf = << >> /\ ~retP

\* C10, second sentence: while the child holds a write end of the pipe open,
\* Popen does not return (no read failing with an error).
C10_BlocksWhileChildWrites ==
  CleanReturn => ChildWriteEnds = {}

\* C10, first sentence: once the child holds no write end of the pipe, the
\* read loop ends and Popen returns.
C10_ReturnsAfterChildCloses ==
  (pcP = "read" /\ ChildWriteEnds = {}) ~> (pcP = "done")

\* The claims about the bytes returned, for a buffer of positive capacity.
PositiveChunkFidelity ==
  (CleanReturn /\ Chunk > 0) =>
     /\ Buf = sent
     /\ ChildWriteEnds = {}
     /\ (wroteOut = << >> /\ RdE) => Buf = wroteErr

\* C11: end of stream is not an error - when the read loop has ended, a
\* "ReadFile" diagnostic has been written exactly when a read failed with an
\* error other than ERROR_BROKEN_PIPE; a broken pipe and a successful read of
\* zero bytes end the loop silently.
C11_EndOfStreamSilent ==
  (pcP \in {"close", "done"} /\ failure = "none") =>
     (("ReadFile" \in Range(diag)) <=> readFailed)

\* The same with the successful read of zero bytes left out: a broken pipe is
\* silent, a failed read is reported.
BrokenPipeSilent ==
  (pcP \in {"close", "done"} /\ failure = "none" /\ Chunk > 0) =>
     (("ReadFile" \in Range(diag)) <=> readFailed)

\* C13: DLSym queries only live enumeration results - every Modules[i] passed
\* to GetProcAddress is an entry the latest successful EnumProcessModulesEx
\* call stored, within the count that call reported, also when the module
\* list changed between the two calls.
C13_ProbesAreLive ==
  \A i \in Probed : i < Written

\* The same when no other thread changes the module list during the call.
ProbesAreLiveWhenQuiet ==
  churn = 0 => \A i \in Probed : i < Written

\* ------------------------------------------------------------------- IsDLL
\* C12: resource release - when IsDLL returns, on whatever path, each of the
\* file handle, the mapping handle and the view that was acquired has been
\* released exactly once, and no release was issued for one that was not.
C12_ResourcesReleased ==
  pcI = "done" => \A r \in Resources : iRel[r] = (IF r \in iAcq THEN 1 ELSE 0)

\* The same for the calls in which ::CreateFileMapping gave a mapping handle
\* or was never reached.
ReleasedWhenMappingCreated ==
  (pcI = "done" /\ hFileMapping # "NULL") =>
     \A r \in Resources : iRel[r] = (IF r \in iAcq THEN 1 ELSE 0)

====
